---- MODULE Spec2Model ----
(***************************************************************************)
(* A model of desktop-api: the window resolver (src/desktop_api/window.py), *)
(* the capture service (src/desktop_api/capture.py) and the hotkey clicker *)
(* example (examples/clicker.py).                                          *)
(*                                                                         *)
(* The operating system is the environment.  Its state is the sequence of  *)
(* top-level windows in enumeration order and the foreground window.  The  *)
(* library reads it through pygetwindow (the "native" path, taken when     *)
(* _HAS_NATIVE_ENUM holds) or through Quartz/AppKit (the "mac" path).      *)
(*                                                                         *)
(* A title is a sequence of one-character strings, so that lower(),        *)
(* strip() and the substring test are computed, not assumed.               *)
(***************************************************************************)
EXTENDS Integers, Sequences, FiniteSets, TLC

VARIABLES
    platform,       \* "native" (_HAS_NATIVE_ENUM) or "mac" (_IS_MAC), fixed at import
    windows,        \* the OS's top-level windows, in enumeration order
    foreground,     \* wid of the foreground window, 0 when there is none
    held,           \* the handle the calling script keeps between calls
    result,         \* the outcome of the last library call
    hold_engaged,   \* HotkeyClicker._hold_engaged
    toggled,        \* HotkeyClicker._toggled
    active,         \* HotkeyClicker._active
    stop_event,     \* HotkeyClicker._stop_event: the Event object it refers to now
    events_set,     \* the Event objects whose flag is set
    workers,        \* the click worker threads started so far: each one's position
    extra_clicks,   \* clicks emitted since clicking was last required to stop
    ARGS,           \* click_capture_logger: the parsed --window and --padding
    phase,          \* click_capture_logger: "start", "listening", "crashed" or "exit1"
    active_window,  \* click_capture_logger.active_window
    press_pos,      \* click_capture_logger.press_pos
    current_image_path, \* click_capture_logger.current_image_path
    press_window,   \* click_capture_logger.press_window
    rows,           \* the rows of captures.csv below its header
    snaps,          \* the timestamps datetime.now() has given out so far
    accepted,       \* the accepted left press a release has not yet followed
    contract_rows   \* the coordinates the log holds by its contract

deskVars == <<platform, windows, foreground, held, result>>
clickerVars == <<hold_engaged, toggled, active, stop_event, events_set, workers, extra_clicks>>
loggerVars == <<ARGS, phase, active_window, press_pos, current_image_path,
                press_window, rows, snaps, accepted, contract_rows>>
vars == <<platform, windows, foreground, held, result,
          hold_engaged, toggled, active, stop_event, events_set, workers, extra_clicks,
          ARGS, phase, active_window, press_pos, current_image_path,
          press_window, rows, snaps, accepted, contract_rows>>

(***************************************************************************)
(* Bounds of the model.                                                    *)
(***************************************************************************)
MaxWindows == 2         \* windows on the desktop
MaxTitleLen == 2        \* characters in a window title
MaxQueryLen == 1        \* characters in a find_window query
MaxMinTitleLength == 2  \* largest min_title_length passed to list_windows
MaxCoord == 1           \* largest left/top (X/Y) of a window
MaxExtent == 2          \* largest right/bottom (Width/Height) of a window
MaxPadding == 1         \* largest padding passed to capture_window
MaxClickOffset == 1     \* largest window-relative click coordinate
MaxRegion == 2          \* largest field of an explicit capture region
MaxWorkers == 3         \* click worker threads ever started

(***************************************************************************)
(* Python values.                                                          *)
(***************************************************************************)
None == -1
ScreenHeight == 4
Chars == {"a", "A", " "}

Max(a, b) == IF a >= b THEN a ELSE b

Strings(n) == UNION {[1..k -> Chars] : k \in 0..n}

\* str.lower(), str.upper(): per character
lower_char(c) == IF c = "A" THEN "a" ELSE c
upper_char(c) == IF c = "a" THEN "A" ELSE c
lower(s) == [i \in 1..Len(s) |-> lower_char(s[i])]
upper(s) == [i \in 1..Len(s) |-> upper_char(s[i])]

\* str.strip(): drops leading and trailing whitespace
RECURSIVE lstrip(_)
lstrip(s) ==
    IF s # <<>> /\ Head(s) = " " THEN lstrip(Tail(s)) ELSE s
RECURSIVE rstrip(_)
rstrip(s) ==
    IF s # <<>> /\ s[Len(s)] = " " THEN rstrip(SubSeq(s, 1, Len(s) - 1)) ELSE s
strip(s) == rstrip(lstrip(s))

\* Python's `q in t` on strings
contains(q, t) ==
    \E i \in 0..(Len(t) - Len(q)) : SubSeq(t, i + 1, i + Len(q)) = q

(***************************************************************************)
(* The OS side.  A window is                                               *)
(*   wid          its identity (never read by the library),                *)
(*   hwnd         the platform identifier: _hWnd / kCGWindowNumber; 0 is   *)
(*                a window object without a usable identifier,             *)
(*   pid          the owning process (kCGWindowOwnerPID),                  *)
(*   title        the title (on mac: owner name and window name joined),   *)
(*   box          <<x, y, w, h>> as the platform reports it: native     *)
(*                left, top, width, height of the window rectangle; mac *)
(*                X, Y, Width, Height of kCGWindowBounds,                  *)
(*   isMinimized  minimized (on mac: not on screen),                       *)
(*   layer        kCGWindowLayer.                                          *)
(***************************************************************************)
NoWindow == [wid |-> 0]

\* WindowHandle, the frozen dataclass
WindowHandle(title, left, top, width, height, is_active, handle, plat, pid) ==
    [title |-> title, left |-> left, top |-> top, width |-> width,
     height |-> height, is_active |-> is_active, handle |-> handle,
     platform |-> plat, pid |-> pid]

\* WindowHandle.as_region(): the mapping left/top/width/height
as_region(h) ==
    [left |-> h.left, top |-> h.top, width |-> h.width, height |-> h.height]

\* A snapshot together with the identity of the window it was taken of
Snap(h, wid) == [h |-> h, wid |-> wid]

\* The target of activate_window / refresh_window: a handle or a title
HandleTarget(h) == [kind |-> "handle", h |-> h]
TitleTarget(t) == [kind |-> "title", t |-> t]
NoTarget == [kind |-> "none"]

\* pygetwindow.getAllWindows(): every visible top-level window
getAllWindows(ws) == ws

\* pygetwindow.getActiveWindow(): the foreground window object or None
getActiveWindow(ws, fg) ==
    IF \E i \in 1..Len(ws) : ws[i].wid = fg
    THEN ws[CHOOSE i \in 1..Len(ws) : ws[i].wid = fg]
    ELSE NoWindow

\* pygetwindow.getWindowsWithTitle(): case-insensitive substring match,
\* in enumeration order
getWindowsWithTitle(title, ws) ==
    SelectSeq(ws, LAMBDA w : contains(upper(title), upper(w.title)))

\* CGWindowListCopyWindowInfo(ExcludeDesktopElements | OnScreenOnly)
CGWindowListCopyWindowInfo(ws) ==
    SelectSeq(ws, LAMBDA w : ~w.isMinimized)

\* A pygetwindow window object's left, top, right and bottom properties
win_left(window) == window.box[1]
win_top(window) == window.box[2]
win_right(window) == window.box[1] + window.box[3]
win_bottom(window) == window.box[2] + window.box[4]

(***************************************************************************)
(* window.py, the native path.                                             *)
(***************************************************************************)
_extract_handle(window) ==
    IF window.wid = 0 THEN None
    ELSE IF window.hwnd # 0 THEN window.hwnd
    ELSE None

\* _to_handle, once the active window's identifier is resolved
to_handle_lost_id(window, resolved_active, window_handle) ==
    WindowHandle(window.title, win_left(window), win_top(window),
                 Max(0, win_right(window) - win_left(window)),
                 Max(0, win_bottom(window) - win_top(window)),
                 window_handle = resolved_active, resolved_active, "windows", None)

to_handle_swapped(window, resolved_active, window_handle) ==
    WindowHandle(window.title, win_top(window), win_left(window),
                 Max(0, win_right(window) - win_left(window)),
                 Max(0, win_bottom(window) - win_top(window)),
                 window_handle = resolved_active, window_handle, "windows", None)

to_handle_fields(window, resolved_active, window_handle) ==
    LET left == win_left(window)
        top == win_top(window)
        right == win_right(window)
        bottom == win_bottom(window)
        width == Max(0, right - left)
        height == Max(0, bottom - top)
    IN  WindowHandle(window.title, left, top, width, height,
                     window_handle = resolved_active, window_handle,
                     "windows", None)

_to_handle(window, active_handle, ws, fg) ==
    to_handle_fields(window,
                     IF active_handle = None
                     THEN _extract_handle(getActiveWindow(ws, fg))
                     ELSE active_handle,
                     _extract_handle(window))

RECURSIVE native_list_from(_, _, _, _, _)
native_list_from(i, min_title_length, active_handle, ws, fg) ==
    IF i > Len(getAllWindows(ws)) THEN <<>>
    ELSE LET win == getAllWindows(ws)[i]
             rest == native_list_from(i + 1, min_title_length, active_handle, ws, fg)
         IN  IF win.title = <<>> \/ Len(strip(win.title)) < min_title_length
             THEN rest
             ELSE IF win.isMinimized THEN rest
             ELSE <<Snap(_to_handle(win, active_handle, ws, fg), win.wid)>> \o rest

active_handle_of(active_win) ==
    IF active_win.wid # 0 THEN _extract_handle(active_win) ELSE None

_list_windows_via_pygetwindow(min_title_length, ws, fg) ==
    native_list_from(1, min_title_length,
                     active_handle_of(getActiveWindow(ws, fg)), ws, fg)

\* The first window of getAllWindows() carrying the platform identifier
first_with_handle(handle, ws) ==
    LET all == getAllWindows(ws)
        hits == {i \in 1..Len(all) : _extract_handle(all[i]) = handle}
    IN  IF hits = {} THEN NoWindow
        ELSE all[CHOOSE i \in hits : \A j \in hits : i <= j]

\* The title fallback: matches[0] if matches else None
first_match(matches) == IF matches # <<>> THEN matches[1] ELSE NoWindow

resolve_or_fallback(by_handle, target_title, ws) ==
    IF by_handle.wid # 0 THEN by_handle
    ELSE first_match(getWindowsWithTitle(target_title, ws))

_resolve_window_object(target, ws) ==
    resolve_or_fallback(
        IF target.kind = "handle" /\ target.h.handle # None
        THEN first_with_handle(target.h.handle, ws)
        ELSE NoWindow,
        IF target.kind = "handle" THEN target.h.title ELSE target.t,
        ws)

(***************************************************************************)
(* window.py, the mac path.                                                *)
(***************************************************************************)
NoSnap == [wid |-> 0]

\* f"{owner} {name}".strip(): the joined title, stripped
_mac_window_title(info) == strip(info.title)

\* NSWorkspace.frontmostApplication().processIdentifier(), or None
_mac_frontmost_pid(ws, fg) ==
    LET front == getActiveWindow(ws, fg)
    IN  IF front.wid = 0 THEN None ELSE front.pid

RECURSIVE mac_iter_from(_, _, _, _, _)
mac_iter_from(i, info_list, screen_height, active_pid, seen) ==
    IF i > Len(info_list) THEN <<>>
    ELSE LET info == info_list[i]
             title == _mac_window_title(info)
             width == info.box[3]
             height == info.box[4]
             left == info.box[1]
             raw_y == info.box[2]
             top == screen_height - (raw_y + height)
             handle == info.hwnd
             pid == info.pid
             key == <<pid, handle>>
         IN  IF info.layer # 0
             THEN mac_iter_from(i + 1, info_list, screen_height, active_pid, seen)
             ELSE IF title = <<>>
             THEN mac_iter_from(i + 1, info_list, screen_height, active_pid, seen)
             ELSE IF key \in seen
             THEN mac_iter_from(i + 1, info_list, screen_height, active_pid, seen)
             ELSE <<Snap(WindowHandle(title, left, top, Max(0, width), Max(0, height),
                                      active_pid # None /\ pid = active_pid,
                                      handle, "mac", pid),
                         info.wid)>>
                  \o mac_iter_from(i + 1, info_list, screen_height, active_pid,
                                   seen \cup {key})

_iter_macos_windows(ws, fg) ==
    mac_iter_from(1, CGWindowListCopyWindowInfo(ws), ScreenHeight,
                  _mac_frontmost_pid(ws, fg), {})

_list_windows_macos(min_title_length, ws, fg) ==
    SelectSeq(_iter_macos_windows(ws, fg),
              LAMBDA snapshot : Len(strip(snapshot.h.title)) >= min_title_length)

\* The first element of a sequence of snapshots that satisfies Test
FirstSnap(candidates, Test(_)) ==
    LET hits == SelectSeq(candidates, Test)
    IN  IF hits = <<>> THEN NoSnap ELSE hits[1]

\* The three loops of _mac_resolve_window over the candidates
mac_pick(by_handle, by_exact, by_substring, desired_title) ==
    IF by_handle.wid # 0 THEN by_handle
    ELSE IF desired_title # <<>> /\ by_exact.wid # 0 THEN by_exact
    ELSE IF desired_title # <<>> THEN by_substring
    ELSE NoSnap

mac_resolve_among(candidates, desired_handle, desired_title, normalized_title) ==
    mac_pick(
        IF desired_handle # None
        THEN FirstSnap(candidates, LAMBDA c : c.h.handle = desired_handle)
        ELSE NoSnap,
        FirstSnap(candidates, LAMBDA c : lower(c.h.title) = normalized_title),
        FirstSnap(candidates, LAMBDA c : contains(normalized_title, lower(c.h.title))),
        desired_title)

mac_resolve_titled(candidates, desired_handle, desired_title) ==
    mac_resolve_among(candidates, desired_handle, desired_title, lower(desired_title))

_mac_resolve_window(target, ws, fg) ==
    mac_resolve_titled(_list_windows_macos(1, ws, fg),
                       IF target.kind = "handle" THEN target.h.handle ELSE None,
                       IF target.kind = "handle" THEN target.h.title ELSE target.t)

\* What NSRunningApplication.activateWithOptions_ can leave in front: the
\* application is raised, not one window of it.  An application that is
\* frontmost already stays as it is; otherwise one of its on-screen windows
\* comes to the front.
_mac_activate_pid(pid, ws, fg) ==
    IF pid = None THEN {fg}
    ELSE IF _mac_frontmost_pid(ws, fg) = pid THEN {fg}
    ELSE LET raised == {i \in 1..Len(ws) : ws[i].pid = pid /\ ~ws[i].isMinimized}
         IN  IF raised = {} THEN {fg} ELSE {ws[i].wid : i \in raised}

(***************************************************************************)
(* window.py, the public functions.  A call returns a record: status is    *)
(* "ok" or the error raised.                                               *)
(***************************************************************************)
list_windows(min_title_length, ws, fg, plat) ==
    IF plat = "native"
    THEN _list_windows_via_pygetwindow(min_title_length, ws, fg)
    ELSE _list_windows_macos(min_title_length, ws, fg)

\* The first listed window the loop of find_window returns
first_hit(hits) ==
    IF hits = <<>>
    THEN [status |-> "WindowNotFound", h |-> None, wid |-> 0]
    ELSE [status |-> "ok", h |-> hits[1].h, wid |-> hits[1].wid]

find_among_query_only(listed, query_to_match, exact, case_sensitive) ==
    first_hit(SelectSeq(listed, LAMBDA s :
                  (exact /\ s.h.title = query_to_match)
                  \/ (~exact /\ contains(query_to_match, s.h.title))))

find_among(listed, query_to_match, exact, case_sensitive) ==
    first_hit(SelectSeq(listed, LAMBDA handle :
                  LET title == IF case_sensitive THEN handle.h.title
                               ELSE lower(handle.h.title)
                  IN  (exact /\ title = query_to_match)
                      \/ (~exact /\ contains(query_to_match, title))))

find_window(query, exact, case_sensitive, min_title_length, ws, fg, plat) ==
    find_among(list_windows(min_title_length, ws, fg, plat),
               IF case_sensitive THEN query ELSE lower(query),
               exact, case_sensitive)

not_found == [status |-> "WindowNotFound", h |-> None, wid |-> 0]

native_snapshot(window_obj, ws, fg) ==
    IF window_obj.wid = 0 THEN not_found
    ELSE [status |-> "ok", h |-> _to_handle(window_obj, None, ws, fg),
          wid |-> window_obj.wid]

mac_snapshot(refreshed) ==
    IF refreshed.wid = 0 THEN not_found
    ELSE [status |-> "ok", h |-> refreshed.h, wid |-> refreshed.wid]

refresh_window_stale(target, ws, fg, plat) ==
    IF target.kind = "handle"
    THEN [status |-> "ok", h |-> target.h, wid |-> 0]
    ELSE not_found

refresh_window(target, ws, fg, plat) ==
    IF plat = "native"
    THEN native_snapshot(_resolve_window_object(target, ws), ws, fg)
    ELSE mac_snapshot(_mac_resolve_window(target, ws, fg))

\* The foreground windows activate_window(target) can leave
native_outcomes(window_obj, fg) ==
    IF window_obj.wid = 0 THEN {fg} ELSE {window_obj.wid}

mac_outcomes(refreshed, ws, fg) ==
    IF refreshed.wid = 0 THEN {fg} ELSE _mac_activate_pid(refreshed.h.pid, ws, fg)

activation_outcomes(target, ws, fg, plat) ==
    IF plat = "native"
    THEN native_outcomes(_resolve_window_object(target, ws), fg)
    ELSE mac_outcomes(_mac_resolve_window(target, ws, fg), ws, fg)

with_fg(r, fg) == [status |-> r.status, h |-> r.h, wid |-> r.wid, fg |-> fg]

native_activate(window_obj, ws, fg, front) ==
    IF window_obj.wid = 0 THEN with_fg(not_found, fg)
    ELSE with_fg(native_snapshot(window_obj, ws, front), front)

mac_activate(refreshed, ws, fg, front) ==
    IF refreshed.wid = 0 THEN with_fg(not_found, fg)
    ELSE with_fg(refresh_window(HandleTarget(refreshed.h), ws, front, "mac"), front)

\* activate_window, the OS having brought `front` to the foreground
activate_window(target, ws, fg, plat, front) ==
    IF plat = "native"
    THEN native_activate(_resolve_window_object(target, ws), ws, fg, front)
    ELSE mac_activate(_mac_resolve_window(target, ws, fg), ws, fg, front)

(***************************************************************************)
(* capture.py.  A region is a tuple or a mapping; `region` in a result is  *)
(* what capture_region was handed, `grab` what mss was asked to grab.      *)
(***************************************************************************)
TupleRegion(left, top, width, height) ==
    [kind |-> "tuple", v |-> <<left, top, width, height>>]
DictRegion(m) == [kind |-> "dict", m |-> m]

_normalize_region(region) ==
    IF region.kind = "tuple" THEN region.v
    ELSE <<region.m.left, region.m.top, region.m.width, region.m.height>>

capture_region_floor0(region) ==
    LET t == _normalize_region(region)
    IN  [left |-> t[1], top |-> t[2], width |-> Max(0, t[3]), height |-> Max(1, t[4])]

capture_region(region) ==
    LET t == _normalize_region(region)
        left == t[1]
        top == t[2]
        width == Max(1, t[3])
        height == Max(1, t[4])
    IN  [left |-> left, top |-> top, width |-> width, height |-> height]

NoRegion == [kind |-> "none"]

\* capture_window after its first line: `window` is what activate_window or
\* refresh_window returned
captured(padded, fg) ==
    [status |-> "ok", region |-> DictRegion(padded), fg |-> fg,
     grab |-> capture_region(DictRegion(padded))]

capture_resolved_pad_once(window, padding) ==
    IF window.status # "ok"
    THEN [status |-> window.status, region |-> NoRegion, fg |-> window.fg]
    ELSE IF padding < 0
    THEN [status |-> "InvalidArgument", region |-> NoRegion, fg |-> window.fg]
    ELSE captured([left |-> window.h.left - padding,
                   top |-> window.h.top - padding,
                   width |-> window.h.width + padding,
                   height |-> window.h.height + padding], window.fg)

capture_resolved(window, padding) ==
    IF window.status # "ok"
    THEN [status |-> window.status, region |-> NoRegion, fg |-> window.fg]
    ELSE IF padding < 0
    THEN [status |-> "InvalidArgument", region |-> NoRegion, fg |-> window.fg]
    ELSE LET region == as_region(window.h)
         IN  captured(IF padding # 0
                      THEN [left |-> region.left - padding,
                            top |-> region.top - padding,
                            width |-> region.width + padding * 2,
                            height |-> region.height + padding * 2]
                      ELSE region,
                      window.fg)

capture_window(target, activate, padding, ws, fg, plat, front) ==
    capture_resolved(IF activate
                     THEN activate_window(target, ws, fg, plat, front)
                     ELSE with_fg(refresh_window(target, ws, fg, plat), fg),
                     padding)

(***************************************************************************)
(* DesktopController.click, whose module is not among the sources: a       *)
(* window-relative point is translated by the left/top of the handle       *)
(* refreshed during the call; without relative_to the point is absolute.   *)
(***************************************************************************)
click_at(x, y, fresh) ==
    IF fresh.status # "ok"
    THEN [status |-> fresh.status, point |-> <<>>]
    ELSE [status |-> "ok", point |-> <<x + fresh.h.left, y + fresh.h.top>>]

click(x, y, relative_to, ws, fg, plat) ==
    IF relative_to.kind = "none"
    THEN [status |-> "ok", point |-> <<x, y>>]
    ELSE click_at(x, y, refresh_window(relative_to, ws, fg, plat))

(***************************************************************************)
(* The desktop as a state machine: the OS moves, resizes, focuses and      *)
(* closes windows; a script calls the library and may keep a handle.       *)
(***************************************************************************)
NoResult == [op |-> "none"]

Window(wid, hwnd, pid, title, box, isMinimized, layer) ==
    [wid |-> wid, hwnd |-> hwnd, pid |-> pid, title |-> title, box |-> box,
     isMinimized |-> isMinimized, layer |-> layer]

\* Where a window can be and how large: a move changes both coordinates, a
\* resize both dimensions
Positions == {<<x, MaxCoord - x>> : x \in 0..MaxCoord}
Sizes == {<<w, MaxExtent + 1 - w>> : w \in 1..MaxExtent}
Paddings == (-1)..MaxPadding

ClickerIdle ==
    /\ hold_engaged = FALSE
    /\ toggled = FALSE
    /\ active = FALSE
    /\ stop_event = 0
    /\ events_set = {}
    /\ workers = <<>>
    /\ extra_clicks = 0

\* click_capture_logger.py before main(): the module-level globals
NoPoint == <<>>

LoggerGlobals ==
    /\ phase = "start"
    /\ active_window = NoTarget
    /\ press_pos = NoPoint
    /\ current_image_path = None
    /\ press_window = NoTarget
    /\ rows = <<>>
    /\ snaps = 0
    /\ accepted = NoPoint
    /\ contract_rows = <<>>

\* The logger not run: --padding at its default
LoggerIdle ==
    /\ ARGS = [window |-> <<"A">>, padding |-> 0]
    /\ LoggerGlobals

\* The targets a script can pass: the handle it holds, or a title
Targets(titles) ==
    {TitleTarget(t) : t \in titles} \cup (IF held.kind = "handle" THEN {held} ELSE {})

OSMove(i, pos) ==
    /\ i \in 1..Len(windows)
    /\ pos # <<windows[i].box[1], windows[i].box[2]>>
    /\ windows' = [windows EXCEPT ![i].box = <<pos[1], pos[2], @[3], @[4]>>]
    /\ result' = NoResult
    /\ UNCHANGED <<platform, foreground, held>>
    /\ UNCHANGED clickerVars
    /\ UNCHANGED loggerVars

OSResize(i, size) ==
    /\ i \in 1..Len(windows)
    /\ size # <<windows[i].box[3], windows[i].box[4]>>
    /\ windows' = [windows EXCEPT ![i].box = <<@[1], @[2], size[1], size[2]>>]
    /\ result' = NoResult
    /\ UNCHANGED <<platform, foreground, held>>
    /\ UNCHANGED clickerVars
    /\ UNCHANGED loggerVars

OSFocus(f) ==
    /\ f # foreground
    /\ f = 0 \/ \E i \in 1..Len(windows) : windows[i].wid = f /\ ~windows[i].isMinimized
    /\ foreground' = f
    /\ result' = NoResult
    /\ UNCHANGED <<platform, windows, held>>
    /\ UNCHANGED clickerVars
    /\ UNCHANGED loggerVars

OSClose(i) ==
    /\ i \in 1..Len(windows)
    /\ windows' = SubSeq(windows, 1, i - 1) \o SubSeq(windows, i + 1, Len(windows))
    /\ foreground' = IF foreground = windows[i].wid THEN 0 ELSE foreground
    /\ result' = NoResult
    /\ UNCHANGED <<platform, held>>
    /\ UNCHANGED clickerVars
    /\ UNCHANGED loggerVars

\* target_window = find_window(query): the script keeps the handle found
FindResult(query, exact, case_sensitive, m, r) ==
    [op |-> "find_window", query |-> query, exact |-> exact,
     case_sensitive |-> case_sensitive, min_title_length |-> m,
     status |-> r.status, h |-> r.h, wid |-> r.wid]

RefreshResult(target, r) ==
    [op |-> "refresh_window", target |-> target,
     status |-> r.status, h |-> r.h, wid |-> r.wid]

Keep(r, res) ==
    /\ r.status = "ok"
    /\ held' = HandleTarget(r.h)
    /\ held' # held
    /\ result' = res

\* target_window = find_window(query): the script keeps the handle found
Acquire(query) ==
    /\ \E r \in {find_window(query, FALSE, FALSE, 1, windows, foreground, platform)} :
           Keep(r, FindResult(query, FALSE, FALSE, 1, r))
    /\ UNCHANGED <<platform, windows, foreground>>
    /\ UNCHANGED clickerVars
    /\ UNCHANGED loggerVars

\* target_window = refresh_window(target_window)
Adopt ==
    /\ held.kind = "handle"
    /\ \E r \in {refresh_window(held, windows, foreground, platform)} :
           Keep(r, RefreshResult(held, r))
    /\ UNCHANGED <<platform, windows, foreground>>
    /\ UNCHANGED clickerVars
    /\ UNCHANGED loggerVars

CallListWindows(m) ==
    /\ result' = [op |-> "list_windows", min_title_length |-> m,
                  listed |-> list_windows(m, windows, foreground, platform)]
    /\ UNCHANGED <<platform, windows, foreground, held>>
    /\ UNCHANGED clickerVars
    /\ UNCHANGED loggerVars

CallFindWindow(query, exact, case_sensitive, m) ==
    /\ result' = FindResult(query, exact, case_sensitive, m,
                            find_window(query, exact, case_sensitive, m,
                                        windows, foreground, platform))
    /\ UNCHANGED <<platform, windows, foreground, held>>
    /\ UNCHANGED clickerVars
    /\ UNCHANGED loggerVars

CallRefreshWindow(target) ==
    /\ result' = RefreshResult(target,
                               refresh_window(target, windows, foreground, platform))
    /\ UNCHANGED <<platform, windows, foreground, held>>
    /\ UNCHANGED clickerVars
    /\ UNCHANGED loggerVars

CallActivateWindow(target) ==
    /\ \E front \in activation_outcomes(target, windows, foreground, platform) :
         \E r \in {activate_window(target, windows, foreground, platform, front)} :
            /\ result' = [op |-> "activate_window", target |-> target,
                          status |-> r.status, h |-> r.h, wid |-> r.wid,
                          fg_before |-> foreground]
            /\ foreground' = r.fg
    /\ UNCHANGED <<platform, windows, held>>
    /\ UNCHANGED clickerVars
    /\ UNCHANGED loggerVars

capture_outcomes(target, activate, ws, fg, plat) ==
    IF activate THEN activation_outcomes(target, ws, fg, plat) ELSE {fg}

CallCaptureWindow(target, activate, padding) ==
    /\ \E front \in capture_outcomes(target, activate, windows, foreground, platform) :
         \E r \in {capture_window(target, activate, padding, windows, foreground,
                                  platform, front)} :
            /\ result' = [op |-> "capture_window", target |-> target,
                          activate |-> activate, padding |-> padding,
                          status |-> r.status, region |-> r.region,
                          grab |-> IF r.status = "ok" THEN r.grab ELSE NoRegion,
                          fg_before |-> foreground]
            /\ foreground' = r.fg
    /\ UNCHANGED <<platform, windows, held>>
    /\ UNCHANGED clickerVars
    /\ UNCHANGED loggerVars

CallCaptureRegion(region) ==
    /\ result' = [op |-> "capture_region", region |-> region,
                  grab |-> capture_region(region)]
    /\ UNCHANGED <<platform, windows, foreground, held>>
    /\ UNCHANGED clickerVars
    /\ UNCHANGED loggerVars

CallClick(x, y, relative_to) ==
    /\ \E r \in {click(x, y, relative_to, windows, foreground, platform)} :
           result' = [op |-> "click", x |-> x, y |-> y, relative_to |-> relative_to,
                      status |-> r.status, point |-> r.point]
    /\ UNCHANGED <<platform, windows, foreground, held>>
    /\ UNCHANGED clickerVars
    /\ UNCHANGED loggerVars

(***************************************************************************)
(* Spec: windows that move and resize under a script that captures and     *)
(* clicks with the handle it holds.                                        *)
(***************************************************************************)
GeomTitles == {<<"A">>, <<"a", "A">>}

GeomDesktops(plat) ==
    {[i \in 1..MaxWindows |->
        Window(i, i, 1, IF i = 1 THEN <<"A">> ELSE <<"a", "A">>,
               <<0, MaxCoord, 1, MaxExtent>>, FALSE, 0)]}

Init ==
    /\ platform \in {"native", "mac"}
    /\ windows \in GeomDesktops(platform)
    /\ foreground = 0
    /\ held = NoTarget
    /\ result = NoResult
    /\ ClickerIdle
    /\ LoggerIdle

Next ==
    \/ \E i \in 1..MaxWindows, pos \in Positions : OSMove(i, pos)
    \/ \E i \in 1..MaxWindows, size \in Sizes : OSResize(i, size)
    \/ \E i \in 1..MaxWindows : OSClose(i)
    \/ \E q \in GeomTitles : Acquire(q)
    \/ Adopt
    \/ \E t \in Targets(GeomTitles), a \in BOOLEAN, p \in Paddings :
           CallCaptureWindow(t, a, p)
    \/ \E x \in 0..MaxClickOffset, y \in 0..MaxClickOffset,
          r \in {NoTarget} \cup Targets({}) : CallClick(x, y, r)

Spec == Init /\ [][Next]_vars

(***************************************************************************)
(* FindSpec: list_windows and find_window over every small desktop.        *)
(***************************************************************************)
\* A window as the desktop shows it: normal, minimized, or (mac) an element
\* of another window layer
FindWindows(plat, i) ==
    {Window(i, i, 1, t, <<0, 0, 1, 1>>, k = "minimized", IF k = "overlay" THEN 1 ELSE 0) :
        t \in Strings(MaxTitleLen),
        k \in {"normal", "minimized"} \cup (IF plat = "mac" THEN {"overlay"} ELSE {})}

FindDesktops(plat) ==
    UNION {{ws \in [1..n -> UNION {FindWindows(plat, i) : i \in 1..n}] :
               \A i \in 1..n : ws[i].wid = i} : n \in 0..MaxWindows}

FindInit ==
    /\ platform \in {"native", "mac"}
    /\ windows \in FindDesktops(platform)
    /\ foreground = 0
    /\ held = NoTarget
    /\ result = NoResult
    /\ ClickerIdle
    /\ LoggerIdle

FindNext ==
    /\ result.op = "none"
    /\ \/ \E m \in 0..MaxMinTitleLength : CallListWindows(m)
       \/ \E q \in Strings(MaxQueryLen), e \in BOOLEAN, c \in BOOLEAN,
             m \in 0..MaxMinTitleLength : CallFindWindow(q, e, c, m)

FindSpec == FindInit /\ [][FindNext]_vars

(***************************************************************************)
(* RegionSpec: capture_region over every small region, tuple or mapping.   *)
(***************************************************************************)
RegionFields == (-1)..MaxRegion

Regions ==
    {TupleRegion(l, t, w, h) : l \in RegionFields, t \in RegionFields,
                               w \in RegionFields, h \in RegionFields}
    \cup {DictRegion([left |-> l, top |-> t, width |-> w, height |-> h]) :
              l \in RegionFields, t \in RegionFields,
              w \in RegionFields, h \in RegionFields}

RegionInit ==
    /\ platform \in {"native", "mac"}
    /\ windows = <<>>
    /\ foreground = 0
    /\ held = NoTarget
    /\ result = NoResult
    /\ ClickerIdle
    /\ LoggerIdle

RegionNext == \E region \in Regions : CallCaptureRegion(region)

RegionSpec == RegionInit /\ [][RegionNext]_vars

(***************************************************************************)
(* FocusSpec: windows that gain focus and close under a script that        *)
(* resolves, refreshes and activates them.                                 *)
(***************************************************************************)
FocusTitles == Strings(MaxQueryLen)

\* Native: a window object may lack a usable identifier.  Mac: every window
\* has its window number, and processes may own several windows.
FocusWindows(plat, i) ==
    {Window(i, n, p, t, <<i, i, 1, 1>>, FALSE, 0) :
        n \in (IF plat = "native" THEN {0, i} ELSE {i}),
        p \in (IF plat = "native" THEN {i} ELSE 1..i),
        t \in FocusTitles}

FocusDesktops(plat) ==
    {ws \in [1..MaxWindows -> UNION {FocusWindows(plat, i) : i \in 1..MaxWindows}] :
        \A i \in 1..MaxWindows : ws[i].wid = i}

FocusInit ==
    /\ platform \in {"native", "mac"}
    /\ windows \in FocusDesktops(platform)
    /\ foreground = 0
    /\ held = NoTarget
    /\ result = NoResult
    /\ ClickerIdle
    /\ LoggerIdle

FocusNext ==
    \/ \E f \in 0..MaxWindows : OSFocus(f)
    \/ \E i \in 1..MaxWindows : OSClose(i)
    \/ \E q \in FocusTitles : Acquire(q)
    \/ Adopt
    \/ \E m \in 0..1 : CallListWindows(m)
    \/ \E t \in Targets(FocusTitles) : CallRefreshWindow(t)
    \/ \E t \in Targets(FocusTitles) : CallActivateWindow(t)

FocusSpec == FocusInit /\ [][FocusNext]_vars

(***************************************************************************)
(* What the claims speak of.                                               *)
(***************************************************************************)
\* The box <<left, top, width, height>> of a live window as the platform
\* reports it now
LiveBox(w) ==
    IF platform = "native"
    THEN <<w.box[1], w.box[2], w.box[3], w.box[4]>>
    ELSE <<w.box[1], ScreenHeight - w.box[2] - w.box[4], w.box[3], w.box[4]>>

\* The live windows a target denotes: the one carrying the handle's platform
\* identifier when there is one, else any window
Denoted(target) ==
    LET carrying == {i \in 1..Len(windows) :
                        /\ target.kind = "handle"
                        /\ target.h.handle # None
                        /\ windows[i].hwnd = target.h.handle}
    IN  IF carrying # {} THEN carrying ELSE 1..Len(windows)

\* The box a handle stores
StoredBox(h) == <<h.left, h.top, h.width, h.height>>

PaddedRegion(box, padding) ==
    DictRegion([left |-> box[1] - padding, top |-> box[2] - padding,
                width |-> box[3] + 2 * padding, height |-> box[4] + 2 * padding])

\* C2: capture_window of a resolvable target with padding p >= 0 hands
\* capture_region the resolved window's box grown by p on every side; with
\* p < 0 it fails with InvalidArgument and no region is captured.
C2_CapturePadding ==
    result.op = "capture_window" =>
        \A fresh \in {refresh_window(result.target, windows, foreground, platform)} :
            fresh.status = "ok" =>
                IF result.padding >= 0
                THEN /\ result.status = "ok"
                     /\ result.region = PaddedRegion(StoredBox(fresh.h), result.padding)
                     /\ result.grab = result.region.m
                ELSE /\ result.status = "InvalidArgument"
                     /\ result.region = NoRegion
                     /\ result.grab = NoRegion

C2_Witness ==
    /\ result.op = "capture_window"
    /\ result.status = "ok"
    /\ result.padding > 0
    /\ result.activate

\* C3: the region capture_window hands to capture_region is the current box
\* of the live window the target denotes, whatever box the handle stores.
C3_CaptureFreshGeometry ==
    result.op = "capture_window" /\ result.status = "ok" =>
        \E i \in Denoted(result.target) :
            result.region = PaddedRegion(LiveBox(windows[i]), result.padding)

C3_Witness ==
    /\ result.op = "capture_window"
    /\ result.status = "ok"
    /\ result.target.kind = "handle"
    /\ result.region # PaddedRegion(StoredBox(result.target.h), result.padding)
    /\ \E i \in 1..Len(windows) :
           /\ windows[i].hwnd = result.target.h.handle
           /\ LiveBox(windows[i])[1] # result.target.h.left
           /\ LiveBox(windows[i])[3] # result.target.h.width

\* C4: click(x, y, relative_to=H) lands at (x + left, y + top) of the window
\* as it is placed during the call; without relative_to it lands at (x, y).
C4_ClickCurrentOffset ==
    result.op = "click" /\ result.status = "ok" =>
        IF result.relative_to.kind = "none"
        THEN result.point = <<result.x, result.y>>
        ELSE \E i \in Denoted(result.relative_to) :
                 result.point = <<result.x + LiveBox(windows[i])[1],
                                  result.y + LiveBox(windows[i])[2]>>

C4_Witness ==
    /\ result.op = "click"
    /\ result.status = "ok"
    /\ result.relative_to.kind = "handle"
    /\ result.x > 0
    /\ result.point[1] # result.x + result.relative_to.h.left
    /\ result.point[2] # result.y + result.relative_to.h.top

\* Whether a listed title answers a query, as the contract words it
Folded(t, case_sensitive) ==
    IF case_sensitive THEN t
    ELSE [i \in 1..Len(t) |-> IF t[i] = "A" THEN "a" ELSE t[i]]

Answers(title, query, exact, case_sensitive) ==
    LET t == Folded(title, case_sensitive)
        q == Folded(query, case_sensitive)
    IN  IF exact THEN t = q
        ELSE \E from \in 1..(Len(t) + 1), to \in 0..Len(t) : SubSeq(t, from, to) = q

\* C1: find_window returns the first listed window whose title equals
\* (exact) or contains (not exact) the query, case-folded unless
\* case_sensitive, and fails with WindowNotFound exactly when none does.
C1_FindFirstMatch ==
    result.op = "find_window" =>
        LET listed == list_windows(result.min_title_length, windows, foreground, platform)
            matching == {i \in 1..Len(listed) :
                            Answers(listed[i].h.title, result.query, result.exact,
                                    result.case_sensitive)}
        IN  IF matching = {}
            THEN result.status = "WindowNotFound"
            ELSE /\ result.status = "ok"
                 /\ \E i \in matching :
                        /\ \A j \in matching : i <= j
                        /\ result.h = listed[i].h
                        /\ result.wid = listed[i].wid

\* A substring match on a proper superstring that differs in case, found
\* behind a first window that does not match
C1_Witness ==
    /\ result.op = "find_window"
    /\ result.status = "ok"
    /\ ~result.exact
    /\ ~result.case_sensitive
    /\ Len(result.query) = 1
    /\ Len(result.h.title) = 2
    /\ ~contains(result.query, result.h.title)
    /\ Len(windows) = 2
    /\ result.wid = 2
    /\ Len(list_windows(result.min_title_length, windows, foreground, platform)) = 2

\* C6: list_windows(m) returns exactly the visible, non-minimized windows
\* whose stripped title has at least m characters.
C6_ListExactly ==
    result.op = "list_windows" =>
        {result.listed[i].wid : i \in 1..Len(result.listed)}
            = {windows[i].wid : i \in {j \in 1..Len(windows) :
                    /\ ~windows[j].isMinimized
                    /\ windows[j].layer = 0
                    /\ Len(strip(windows[j].title)) >= result.min_title_length}}

\* C9: capture_region grabs (left, top, max(1, width), max(1, height)) of
\* the region, given as a tuple or as a mapping.
C9_RegionClamped ==
    result.op = "capture_region" =>
        LET given == IF result.region.kind = "tuple"
                     THEN [left |-> result.region.v[1], top |-> result.region.v[2],
                           width |-> result.region.v[3], height |-> result.region.v[4]]
                     ELSE result.region.m
        IN  /\ result.grab.left = given.left
            /\ result.grab.top = given.top
            /\ result.grab.width = (IF given.width <= 0 THEN 1 ELSE given.width)
            /\ result.grab.height = (IF given.height <= 0 THEN 1 ELSE given.height)

C9_Witness ==
    /\ result.op = "capture_region"
    /\ result.region.kind = "dict"
    /\ result.region.m.width < 0
    /\ result.region.m.height > 1
    /\ result.grab.width = 1
    /\ result.grab.height = result.region.m.height

\* The live window with identity wid (a record with wid 0 when it is gone)
Live(wid) ==
    IF \E i \in 1..Len(windows) : windows[i].wid = wid
    THEN windows[CHOOSE i \in 1..Len(windows) : windows[i].wid = wid]
    ELSE NoWindow

\* C7: activate_window either fails with WindowNotFound, no live window
\* resolving the target and the foreground window unchanged, or makes the
\* resolved window the foreground window and returns its current geometry;
\* refresh_window returns the same handle and leaves the foreground alone.
C7_ActivateForeground ==
    /\ result.op = "activate_window" =>
           IF result.status = "ok"
           THEN /\ foreground = result.wid
                /\ StoredBox(result.h) = LiveBox(Live(result.wid))
           ELSE /\ result.status = "WindowNotFound"
                /\ foreground = result.fg_before
                /\ refresh_window(result.target, windows, foreground, platform).status
                       = "WindowNotFound"
    /\ result.op = "refresh_window" /\ result.status = "ok" =>
           StoredBox(result.h) = LiveBox(Live(result.wid))

\* C8: refreshing the handle a refresh returned, nothing having changed on
\* the desktop, returns the same geometry of the same window.
C8_RefreshIdempotent ==
    result.op = "refresh_window" /\ result.status = "ok" =>
        \A again \in {refresh_window(HandleTarget(result.h), windows, foreground,
                                     platform)} :
            /\ again.status = "ok"
            /\ again.wid = result.wid
            /\ StoredBox(again.h) = StoredBox(result.h)

\* A refresh that fell back to the title: the handle's identifier is gone
C8_Witness ==
    /\ result.op = "refresh_window"
    /\ result.status = "ok"
    /\ result.target.kind = "handle"
    /\ result.target.h.handle # None
    /\ result.target.h.handle # result.h.handle
    /\ result.wid = 2

\* The snapshots the last call returned
Returned ==
    IF result.op = "list_windows"
    THEN {result.listed[i] : i \in 1..Len(result.listed)}
    ELSE IF result.op \in {"find_window", "refresh_window", "activate_window"}
            /\ result.status = "ok"
    THEN {Snap(result.h, result.wid)}
    ELSE {}

\* C10: a returned handle is active exactly when the window it describes is
\* the foreground window.
C10_ActiveIffForeground ==
    \A s \in Returned : s.h.is_active <=> (s.wid = foreground)

(***************************************************************************)
(* examples/clicker.py: HotkeyClicker.  The keyboard listener runs the     *)
(* handlers one at a time on its own thread; every activation starts a     *)
(* click worker thread.  A worker is at "check" (about to evaluate the     *)
(* while condition), "click" (about to click), "sleep" (in time.sleep) or  *)
(* "done" (left the loop).  Event objects are numbered in creation order,  *)
(* the one made by __init__ being 0.                                       *)
(***************************************************************************)
_update_state(hold, tog) ==
    LET should_run == hold \/ tog
    IN  IF should_run /\ ~active
        THEN /\ Len(workers) < MaxWorkers
             /\ stop_event' = stop_event + 1
             /\ workers' = Append(workers, "check")
             /\ active' = TRUE
             /\ extra_clicks' = 0
             /\ UNCHANGED events_set
        ELSE IF ~should_run /\ active
        THEN /\ events_set' = events_set \cup {stop_event}
             /\ active' = FALSE
             /\ extra_clicks' = 0
             /\ UNCHANGED <<stop_event, workers>>
        ELSE UNCHANGED <<active, stop_event, events_set, workers, extra_clicks>>

_on_press(key) ==
    /\ \/ /\ key = "hold_hotkey"
          /\ hold_engaged' = TRUE
          /\ UNCHANGED toggled
          /\ _update_state(TRUE, toggled)
       \/ /\ key = "toggle_hotkey"
          /\ toggled' = ~toggled
          /\ UNCHANGED hold_engaged
          /\ _update_state(hold_engaged, ~toggled)
    /\ UNCHANGED deskVars
    /\ UNCHANGED loggerVars

_on_release(key) ==
    /\ key = "hold_hotkey"
    /\ hold_engaged' = FALSE
    /\ UNCHANGED toggled
    /\ _update_state(FALSE, toggled)
    /\ UNCHANGED deskVars
    /\ UNCHANGED loggerVars

\* while not self._stop_event.is_set(): the attribute is read afresh
LoopTest(i) ==
    /\ i \in 1..Len(workers)
    /\ workers[i] = "check"
    /\ workers' = [workers EXCEPT ![i] = IF stop_event \in events_set
                                         THEN "done" ELSE "click"]
    /\ UNCHANGED <<hold_engaged, toggled, active, stop_event, events_set, extra_clicks>>
    /\ UNCHANGED deskVars
    /\ UNCHANGED loggerVars

\* self.controller.click(x, y, button=self.button)
LoopClick(i) ==
    /\ i \in 1..Len(workers)
    /\ workers[i] = "click"
    /\ workers' = [workers EXCEPT ![i] = "sleep"]
    /\ extra_clicks' = IF active THEN extra_clicks ELSE extra_clicks + 1
    /\ UNCHANGED <<hold_engaged, toggled, active, stop_event, events_set>>
    /\ UNCHANGED deskVars
    /\ UNCHANGED loggerVars

\* time.sleep(self.interval) returns
LoopSleep(i) ==
    /\ i \in 1..Len(workers)
    /\ workers[i] = "sleep"
    /\ workers' = [workers EXCEPT ![i] = "check"]
    /\ UNCHANGED <<hold_engaged, toggled, active, stop_event, events_set, extra_clicks>>
    /\ UNCHANGED deskVars
    /\ UNCHANGED loggerVars

_click_loop(i) == LoopTest(i) \/ LoopClick(i) \/ LoopSleep(i)

ClickerInit ==
    /\ platform = "native"
    /\ windows = <<>>
    /\ foreground = 0
    /\ held = NoTarget
    /\ result = NoResult
    /\ ClickerIdle
    /\ LoggerIdle

ClickerNext ==
    \/ \E key \in {"hold_hotkey", "toggle_hotkey"} : _on_press(key)
    \/ _on_release("hold_hotkey")
    \/ \E i \in 1..MaxWorkers : _click_loop(i)

ClickerSpec == ClickerInit /\ [][ClickerNext]_vars

\* C5: once clicking is required to stop (hold key released with the toggle
\* off, or toggle switched off with the hold key up), at most one further
\* click is emitted until the next activation.
C5_AtMostOneExtraClick == extra_clicks <= 1

(***************************************************************************)
(* ResolveSpec: refresh_window and activate_window on a handle the script  *)
(* got earlier, over every desktop the handle can meet by then: its        *)
(* identifier still carried by a window, or by none, and titles that       *)
(* equal, contain or miss the handle's title.                              *)
(***************************************************************************)
ResolveTitles ==
    {t \in Strings(MaxTitleLen) : t # <<>> /\ \A i \in 1..Len(t) : t[i] # " "}

ResolveWindows(plat, i) ==
    {Window(i, n, 1, t, <<0, 0, 1, 1>>, FALSE, 0) :
        n \in (IF plat = "native" THEN {0, i} ELSE {i}),
        t \in ResolveTitles}

ResolveDesktops(plat) ==
    {ws \in [1..MaxWindows -> UNION {ResolveWindows(plat, i) : i \in 1..MaxWindows}] :
        \A i \in 1..MaxWindows : ws[i].wid = i}

\* The handles a script can hold: taken from some window at some time
StaleHandles(plat) ==
    {HandleTarget(WindowHandle(t, 0, 0, 1, 1, FALSE, n,
                               IF plat = "native" THEN "windows" ELSE "mac",
                               IF plat = "native" THEN None ELSE 1)) :
        t \in ResolveTitles, n \in {None} \cup 1..(MaxWindows + 1)}

ResolveInit ==
    /\ platform \in {"native", "mac"}
    /\ windows \in ResolveDesktops(platform)
    /\ foreground = 0
    /\ held \in StaleHandles(platform)
    /\ result = NoResult
    /\ ClickerIdle
    /\ LoggerIdle

ResolveNext ==
    /\ result.op = "none"
    /\ \/ CallRefreshWindow(held)
       \/ CallActivateWindow(held)

ResolveSpec == ResolveInit /\ [][ResolveNext]_vars

\* The live windows carrying identifier n, and those whose title answers t
Carrying(n) ==
    {i \in 1..Len(windows) : n # None /\ windows[i].hwnd # 0 /\ windows[i].hwnd = n}

Titled(t, exact) ==
    {i \in 1..Len(windows) : Answers(windows[i].title, t, exact, FALSE)}

\* C11: given a handle, the window carrying the handle's identifier is
\* resolved whatever its title; without such a window a window whose title
\* equals the handle's title is resolved, and one whose title only contains
\* it is resolved only when no title equals it.
C11_ResolutionTiers ==
    result.op \in {"refresh_window", "activate_window"} /\ result.target.kind = "handle" =>
        LET H == result.target.h
            tier == IF Carrying(H.handle) # {} THEN Carrying(H.handle)
                    ELSE IF Titled(H.title, TRUE) # {} THEN Titled(H.title, TRUE)
                    ELSE Titled(H.title, FALSE)
        IN  IF tier = {} THEN result.status = "WindowNotFound"
            ELSE /\ result.status = "ok"
                 /\ result.wid \in {windows[i].wid : i \in tier}

(***************************************************************************)
(* examples/click_capture_logger.py.  main() activates the --window target *)
(* once and hands on_click to a pynput mouse listener.  The listener runs  *)
(* on_click for every mouse event, one at a time; an exception that leaves *)
(* on_click stops the listener and is raised again by listener.join(), so  *)
(* the script ends ("crashed").  Timestamps are numbered in the order      *)
(* datetime.now() gives them out.                                          *)
(***************************************************************************)
MaxSnaps == 2           \* accepted presses in a run
MaxPoint == 2           \* mouse events fall on (p, p), p in 0..MaxPoint

Points == {<<p, p>> : p \in 0..MaxPoint}
LoggerPaddings == {-1, 0}

_point_in_window(x, y, window) ==
    /\ window.left <= x
    /\ x <= window.left + window.width
    /\ window.top <= y
    /\ y <= window.top + window.height

Event(x, y, button, pressed, status) ==
    [op |-> "on_click", x |-> x, y |-> y, button |-> button, pressed |-> pressed,
     status |-> status]

\* writer.writerow([...]) of on_click
CsvRow(path, press, release) ==
    [image_path |-> path, press_x |-> press[1], press_y |-> press[2],
     release_x |-> release[1], release_y |-> release[2], reasoning |-> ""]

\* By the contract a left release that follows an accepted left press is a
\* completed click: press and release relative to the box at press time
Completes(x, y) ==
    /\ contract_rows' = IF accepted # NoPoint
                        THEN Append(contract_rows,
                                    <<accepted[1], accepted[2],
                                      x - accepted[3], y - accepted[4]>>)
                        ELSE contract_rows
    /\ accepted' = NoPoint

\* main(): init_csv, activate the target, start the listener
main ==
    /\ phase = "start"
    /\ \E front \in activation_outcomes(TitleTarget(ARGS.window), windows, foreground,
                                        platform) :
         \E r \in {activate_window(TitleTarget(ARGS.window), windows, foreground,
                                   platform, front)} :
            /\ phase' = IF r.status = "ok" THEN "listening" ELSE "exit1"
            /\ active_window' = IF r.status = "ok" THEN HandleTarget(r.h) ELSE NoTarget
            /\ foreground' = r.fg
            /\ result' = [op |-> "main", status |-> r.status]
    /\ UNCHANGED <<platform, windows, held>>
    /\ UNCHANGED <<ARGS, press_pos, current_image_path, press_window, rows, snaps,
                   accepted, contract_rows>>
    /\ UNCHANGED clickerVars

\* on_click, pressed: lines 63-78
on_press(x, y) ==
    IF active_window.kind = "none"
    THEN /\ result' = Event(x, y, "left", TRUE, "ignored")
         /\ UNCHANGED <<phase, active_window, press_pos, current_image_path,
                        press_window, snaps, accepted>>
    ELSE \E fresh \in {refresh_window(active_window, windows, foreground, platform)} :
        IF fresh.status # "ok"
        THEN /\ phase' = "crashed"
             /\ result' = Event(x, y, "left", TRUE, "WindowNotFound")
             /\ UNCHANGED <<active_window, press_pos, current_image_path,
                            press_window, snaps, accepted>>
        ELSE IF ~_point_in_window(x, y, fresh.h)
        THEN /\ active_window' = HandleTarget(fresh.h)
             /\ result' = Event(x, y, "left", TRUE, "outside")
             /\ UNCHANGED <<phase, press_pos, current_image_path, press_window,
                            snaps, accepted>>
        ELSE /\ snaps < MaxSnaps
             /\ active_window' = HandleTarget(fresh.h)
             /\ press_window' = HandleTarget(fresh.h)
             /\ press_pos' = <<x - fresh.h.left, y - fresh.h.top>>
             /\ snaps' = snaps + 1
             /\ current_image_path' = snaps + 1
             /\ accepted' = <<x - fresh.h.left, y - fresh.h.top,
                              fresh.h.left, fresh.h.top>>
             /\ \E shot \in {capture_window(HandleTarget(fresh.h), FALSE, ARGS.padding,
                                            windows, foreground, platform, foreground)},
                   saved \in BOOLEAN :
                    IF shot.status = "ok" /\ saved
                    THEN /\ phase' = phase
                         /\ result' = Event(x, y, "left", TRUE, "captured")
                    ELSE /\ phase' = "crashed"
                         /\ result' = Event(x, y, "left", TRUE, "CaptureFailed")

\* on_click, released: lines 80-99
on_release(x, y) ==
    IF press_pos = NoPoint \/ current_image_path = None \/ press_window.kind = "none"
    THEN /\ result' = Event(x, y, "left", FALSE, "ignored")
         /\ UNCHANGED <<rows, press_pos, current_image_path, press_window>>
    ELSE /\ rows' = Append(rows,
                           CsvRow(current_image_path, press_pos,
                                  <<x - press_window.h.left, y - press_window.h.top>>))
         /\ press_pos' = NoPoint
         /\ current_image_path' = None
         /\ press_window' = NoTarget
         /\ result' = Event(x, y, "left", FALSE, "logged")

on_click(x, y, button, pressed) ==
    /\ phase = "listening"
    /\ IF button # "left"
       THEN /\ result' = Event(x, y, button, pressed, "ignored")
            /\ UNCHANGED loggerVars
       ELSE IF pressed
       THEN /\ on_press(x, y)
            /\ UNCHANGED <<ARGS, rows, contract_rows>>
       ELSE /\ on_release(x, y)
            /\ Completes(x, y)
            /\ UNCHANGED <<ARGS, phase, active_window, snaps>>
    /\ UNCHANGED <<platform, windows, foreground, held>>
    /\ UNCHANGED clickerVars

\* A left release while no listener runs
Unheard(x, y) ==
    /\ phase = "crashed"
    /\ accepted # NoPoint
    /\ Completes(x, y)
    /\ result' = NoResult
    /\ UNCHANGED <<ARGS, phase, active_window, press_pos, current_image_path,
                   press_window, rows, snaps>>
    /\ UNCHANGED <<platform, windows, foreground, held>>
    /\ UNCHANGED clickerVars

LoggerInit ==
    /\ platform \in {"native", "mac"}
    /\ windows \in GeomDesktops(platform)
    /\ foreground = 0
    /\ held = NoTarget
    /\ result = NoResult
    /\ ClickerIdle
    /\ ARGS \in {[window |-> t, padding |-> p] : t \in GeomTitles, p \in LoggerPaddings}
    /\ LoggerGlobals

LoggerNext ==
    \/ main
    \/ \E i \in 1..MaxWindows, pos \in Positions : OSMove(i, pos)
    \/ \E i \in 1..MaxWindows : OSClose(i)
    \/ \E p \in Points, button \in {"left", "right"}, pressed \in BOOLEAN :
           on_click(p[1], p[2], button, pressed)
    \/ \E p \in Points : Unheard(p[1], p[2])

LoggerSpec == LoggerInit /\ [][LoggerNext]_vars

\* The window-relative coordinates of the rows of the log
LoggedCoordinates ==
    [i \in 1..Len(rows) |->
        <<rows[i].press_x, rows[i].press_y, rows[i].release_x, rows[i].release_y>>]

\* C12: the log holds exactly one row for each left release that followed a
\* left press accepted inside the freshly refreshed target window, in
\* order, with press and release relative to the window box at press time;
\* no other event adds, changes or removes a row.
C12_OneRowPerClick == LoggedCoordinates = contract_rows

\* C13: a click whose handling failed (the target no longer resolves, or the
\* capture fails) leaves the listener running, with no press pending for
\* the failed capture, so that no row is written for it.
C13_LogAndContinue ==
    result.op = "on_click" /\ result.status \in {"WindowNotFound", "CaptureFailed"} =>
        /\ phase = "listening"
        /\ result.status = "CaptureFailed" => press_pos = NoPoint

\* C14: a click worker that makes its loop test after the active period it
\* was started for has ended leaves the loop, even when a new active period
\* has begun by then; so at most one worker goes on looping.  Worker i was
\* started together with Event i.
C14_StoppedWorkerExits ==
    [][\A i \in 1..Len(workers) :
           (workers[i] = "check" /\ workers'[i] # "check" /\ i \in events_set)
               => workers'[i] = "done"]_vars

====
